---- MODULE Spec2Model ----
(***************************************************************************)
(* floydrivest: in-place selection of the n-th element (src/src/lib.rs).    *)
(*                                                                         *)
(* The buffer `a` is a slice of integers compared with Ord::cmp, as in the *)
(* crate's tests.  Indices are the source's zero-based usize indices; the  *)
(* TLA+ sequence holding the buffer is read through At(b, x) == b[x + 1].  *)
(* Every numbered line of floydrivest() is one step of the state machine;  *)
(* `pc` is the position of the running call.  A Rust panic (index out of   *)
(* bounds, or usize underflow, which panics in a debug build and in a      *)
(* release build wraps to an index that is out of bounds at its next use)  *)
(* is the terminal position "panic".                                       *)
(***************************************************************************)
EXTENDS Integers, Sequences, FiniteSets

\* ---- bounds of the model ----
MaxLen == 5
MaxVal == 3
MaxSampleLen == 4
SampleThreshold == 1

\* ---- program constant: `if right - left > 600` ----
Threshold == 600

Vals == 1..MaxVal
Buffers == UNION {[1..n -> Vals] : n \in 0..MaxLen}
SampleBuffers == UNION {[1..n -> Vals] : n \in 0..MaxSampleLen}

VARIABLES
    a,        \* a: &mut [T]
    nth_el,   \* nth_el: usize
    left,     \* mut left: usize   (of the running frame)
    right,    \* mut right: usize  (of the running frame)
    i,        \* let mut i: usize
    j,        \* let mut j: usize
    t,        \* let mut t: T
    pc,       \* position of the running call
    stack,    \* frames of the callers of the running floydrivest frame
    thresh,   \* the size threshold of the sub-sampling branch
    a0,       \* history: the buffer when nth_element was called
    aPass,    \* history: the buffer when the running partition pass began
    prevNth,  \* history: nth_el of the call that returned just before this one
    sampled   \* history: the running call has made a recursive call

vars == <<a, nth_el, left, right, i, j, t, pc, stack, thresh, a0, aPass, prevNth, sampled>>

NoCall == 0 - 1

\* ---- pure helpers ----
At(b, x) == b[x + 1]

InBounds(b, x) == x >= 0 /\ x < Len(b)

\* Ord::cmp on integers
cmp(x, y) == IF x < y THEN "Less" ELSE IF x > y THEN "Greater" ELSE "Equal"

\* mutant of swap: the second position is not written
swapOverwrite(b, x, y) == [b EXCEPT ![x + 1] = b[y + 1]]

\* a.swap(x, y)
swap(b, x, y) == [b EXCEPT ![x + 1] = b[y + 1], ![y + 1] = b[x + 1]]

\* j.saturating_sub(1)
saturating_sub(x, y) == IF x >= y THEN x - y ELSE 0

\* mutant of Sentinel: the sentinel swap is left out
SentinelMissing(b, l, r, tt) == b

\* mutant of Sentinel: the test is reversed
SentinelReversed(b, l, r, tt) == IF cmp(At(b, r), tt) = "Less" THEN swap(b, r, l) ELSE b

\* lines 66-68: the sentinel swap
Sentinel(b, l, r, tt) == IF cmp(At(b, r), tt) = "Greater" THEN swap(b, r, l) ELSE b

\* mutant of PlaceIndex: j is not advanced in the non-equal branch
PlaceIndexNoAdvance(b, l, jj, tt) == jj

\* lines 80-85: the index the pivot is placed at
PlaceIndex(b, l, jj, tt) == IF cmp(At(b, l), tt) = "Equal" THEN jj ELSE jj + 1

\* mutant of PlaceBuffer: the equal branch is taken unconditionally
PlaceBufferAlwaysLeft(b, l, r, jj, tt) == swap(b, l, jj)

\* lines 80-85: the buffer after the pivot placement
PlaceBuffer(b, l, r, jj, tt) ==
    IF cmp(At(b, l), tt) = "Equal" THEN swap(b, l, jj) ELSE swap(b, jj + 1, r)

\* mutant of NewLeft: the test j <= nth_el is dropped
NewLeftUnguarded(l, jj, n) == jj + 1

\* lines 89-94: the new left
NewLeft(l, jj, n) == IF jj <= n THEN jj + 1 ELSE l

\* lines 89-94: the new right (the second test is nested in the first)
NewRight(r, jj, n) == IF jj <= n /\ n <= jj THEN saturating_sub(jj, 1) ELSE r

\* lines 46-56: the sub-range [ll, rr] of the recursive call.  The floating
\* point estimate is abstracted to every pair it can produce: ll is clamped
\* from below by left, rr from above by right, the sample is smaller than
\* the range, and for nth_el inside the range it contains nth_el.
SampleRanges(l, r, n) ==
    IF l <= n /\ n <= r
    THEN {p \in (l..n) \X (n..r) : p[2] - p[1] < r - l}
    ELSE {p \in (l..r) \X (l..r) : p[2] - p[1] < r - l}

\* mutant of ReturnRange: the callee's narrowed range leaks into the caller
ReturnRangeLeaked(frame, l, r) == <<l, r>>

\* lines 32, 57: left and right are passed by value; when the recursive call
\* returns, the caller goes on with its own left and right (the saved frame),
\* whatever the callee's l and r have become.
ReturnRange(frame, l, r) == frame

\* ---- initial state: a caller owns some buffer, no call is running ----
Init ==
    /\ a \in Buffers
    /\ nth_el = 0 /\ left = 0 /\ right = 0 /\ i = 0 /\ j = 0 /\ t = 0
    /\ pc = "idle"
    /\ stack = <<>>
    /\ thresh = Threshold
    /\ a0 = a /\ aPass = a
    /\ prevNth = NoCall
    /\ sampled = FALSE

InitSample ==
    /\ a \in SampleBuffers
    /\ nth_el = 0 /\ left = 0 /\ right = 0 /\ i = 0 /\ j = 0 /\ t = 0
    /\ pc = "idle"
    /\ stack = <<>>
    /\ thresh = SampleThreshold
    /\ a0 = a /\ aPass = a
    /\ prevNth = NoCall
    /\ sampled = FALSE

Panic ==
    /\ pc' = "panic"
    /\ UNCHANGED <<a, nth_el, left, right, i, j, t, stack, thresh, a0, aPass, prevNth, sampled>>

\* lines 24-30: nth_element(a, nth_el, cmp) calls floydrivest(a, nth_el, 0, a.len() - 1, cmp).
\* On an empty slice a.len() - 1 underflows: a debug build panics there, a
\* release build goes on with right = usize::MAX and panics at its first a[..].
Call(n) ==
    /\ pc \in {"idle", "done"}
    /\ nth_el' = n
    /\ a0' = a
    /\ prevNth' = IF pc = "done" THEN nth_el ELSE NoCall
    /\ sampled' = FALSE
    /\ IF Len(a) = 0
       THEN /\ pc' = "panic"
            /\ UNCHANGED <<left, right>>
       ELSE /\ pc' = "loop"
            /\ left' = 0
            /\ right' = Len(a) - 1
    /\ UNCHANGED <<a, i, j, t, stack, thresh, aPass>>

\* lines 40-41: while right > left { if right - left > 600 {
LoopTest ==
    /\ pc = "loop"
    /\ right > left
    /\ pc' = IF right - left > thresh THEN "sample" ELSE "pivot"
    /\ UNCHANGED <<a, nth_el, left, right, i, j, t, stack, thresh, a0, aPass, prevNth, sampled>>

\* line 40, 96: the loop of the outermost frame ends, nth_element returns
ReturnTop ==
    /\ pc = "loop"
    /\ ~(right > left)
    /\ stack = <<>>
    /\ pc' = "done"
    /\ UNCHANGED <<a, nth_el, left, right, i, j, t, stack, thresh, a0, aPass, prevNth, sampled>>

\* lines 46-57: floydrivest(a, nth_el, ll, rr, cmp)
Sample ==
    /\ pc = "sample"
    /\ \E p \in SampleRanges(left, right, nth_el) :
        /\ stack' = Append(stack, <<left, right>>)
        /\ left' = p[1]
        /\ right' = p[2]
    /\ pc' = "loop"
    /\ sampled' = TRUE
    /\ UNCHANGED <<a, nth_el, i, j, t, thresh, a0, aPass, prevNth>>

\* line 40, 96 in a recursive frame: return to line 59 of the caller
ReturnSub ==
    /\ pc = "loop"
    /\ ~(right > left)
    /\ stack # <<>>
    /\ left' = ReturnRange(stack[Len(stack)], left, right)[1]
    /\ right' = ReturnRange(stack[Len(stack)], left, right)[2]
    /\ stack' = SubSeq(stack, 1, Len(stack) - 1)
    /\ pc' = "pivot"
    /\ UNCHANGED <<a, nth_el, i, j, t, thresh, a0, aPass, prevNth, sampled>>

\* lines 62-65: t = a[nth_el].clone(); i = left; j = right; a.swap(left, nth_el);
Pivot ==
    /\ pc = "pivot"
    /\ IF InBounds(a, nth_el) /\ InBounds(a, left)
       THEN /\ t' = At(a, nth_el)
            /\ i' = left
            /\ j' = right
            /\ a' = swap(a, left, nth_el)
            /\ aPass' = a
            /\ pc' = "sentinel"
            /\ UNCHANGED <<nth_el, left, right, stack, thresh, a0, prevNth, sampled>>
       ELSE Panic

\* lines 66-68: if cmp(&a[right], &t) == Greater { a.swap(right, left); }
SentinelStep ==
    /\ pc = "sentinel"
    /\ IF InBounds(a, right) /\ InBounds(a, left)
       THEN /\ a' = Sentinel(a, left, right, t)
            /\ pc' = "scan"
            /\ UNCHANGED <<nth_el, left, right, i, j, t, stack, thresh, a0, aPass, prevNth, sampled>>
       ELSE Panic

\* line 69: while i < j {
ScanTest ==
    /\ pc = "scan"
    /\ pc' = IF i < j THEN "swap" ELSE "place"
    /\ UNCHANGED <<a, nth_el, left, right, i, j, t, stack, thresh, a0, aPass, prevNth, sampled>>

\* lines 70-72: a.swap(i, j); i += 1; j -= 1;
ScanSwap ==
    /\ pc = "swap"
    /\ IF InBounds(a, i) /\ InBounds(a, j) /\ j >= 1
       THEN /\ a' = swap(a, i, j)
            /\ i' = i + 1
            /\ j' = j - 1
            /\ pc' = "skipI"
            /\ UNCHANGED <<nth_el, left, right, t, stack, thresh, a0, aPass, prevNth, sampled>>
       ELSE Panic

\* lines 73-75: while cmp(&a[i], &t) == Less { i += 1; }
SkipI ==
    /\ pc = "skipI"
    /\ IF InBounds(a, i)
       THEN /\ IF cmp(At(a, i), t) = "Less"
               THEN i' = i + 1 /\ pc' = "skipI"
               ELSE i' = i /\ pc' = "skipJ"
            /\ UNCHANGED <<a, nth_el, left, right, j, t, stack, thresh, a0, aPass, prevNth, sampled>>
       ELSE Panic

\* lines 76-78: while cmp(&a[j], &t) == Greater { j -= 1; }
SkipJ ==
    /\ pc = "skipJ"
    /\ IF InBounds(a, j) /\ (cmp(At(a, j), t) = "Greater" => j >= 1)
       THEN /\ IF cmp(At(a, j), t) = "Greater"
               THEN j' = j - 1 /\ pc' = "skipJ"
               ELSE j' = j /\ pc' = "scan"
            /\ UNCHANGED <<a, nth_el, left, right, i, t, stack, thresh, a0, aPass, prevNth, sampled>>
       ELSE Panic

\* lines 80-85: if cmp(&a[left], &t) == Equal { a.swap(left, j); }
\*              else { j += 1; a.swap(j, right); }
Place ==
    /\ pc = "place"
    /\ IF /\ InBounds(a, left)
          /\ InBounds(a, PlaceIndex(a, left, j, t))
          /\ InBounds(a, right)
       THEN /\ j' = PlaceIndex(a, left, j, t)
            /\ a' = PlaceBuffer(a, left, right, j, t)
            /\ pc' = "adjust"
            /\ UNCHANGED <<nth_el, left, right, i, t, stack, thresh, a0, aPass, prevNth, sampled>>
       ELSE Panic

\* lines 89-94: if j <= nth_el { left = j + 1; if nth_el <= j { right = j.saturating_sub(1); } }
Adjust ==
    /\ pc = "adjust"
    /\ left' = NewLeft(left, j, nth_el)
    /\ right' = NewRight(right, j, nth_el)
    /\ pc' = "loop"
    /\ UNCHANGED <<a, nth_el, i, j, t, stack, thresh, a0, aPass, prevNth, sampled>>

\* one step of the running call
Step ==
    \/ LoopTest
    \/ ReturnTop
    \/ Pivot
    \/ SentinelStep
    \/ ScanTest
    \/ ScanSwap
    \/ SkipI
    \/ SkipJ
    \/ Place
    \/ Adjust

\* With buffers of at most MaxLen <= 600 elements the branch of line 41 is
\* never taken: the recursive call is not part of the next-state relation.
Next ==
    \/ \E n \in 0..MaxLen : Call(n)
    \/ Step

Spec == Init /\ [][Next]_vars

\* The running call always takes its next step (a sequential program).
FairSpec == Spec /\ WF_vars(Step)

\* The size threshold as a parameter: the recursive call is taken.  One
\* top-level call is followed from its start to its end.
NextSample ==
    \/ \E n \in 0..MaxSampleLen : pc = "idle" /\ Call(n)
    \/ Step
    \/ Sample
    \/ ReturnSub

SpecSample == InitSample /\ [][NextSample]_vars

\* ---- definitions used by the properties ----
ValidCall == Len(a) > 0 /\ nth_el >= 0 /\ nth_el < Len(a)

Returned == pc = "done"

RECURSIVE Insert(_, _)
Insert(v, s) ==
    IF s = <<>> THEN <<v>>
    ELSE IF v <= Head(s) THEN <<v>> \o s
    ELSE <<Head(s)>> \o Insert(v, Tail(s))

RECURSIVE SortedCopy(_)
SortedCopy(b) == IF b = <<>> THEN <<>> ELSE Insert(Head(b), SortedCopy(Tail(b)))

Count(b, v) == Cardinality({x \in DOMAIN b : b[x] = v})

SameMultiset(b, c) == Len(b) = Len(c) /\ \A v \in Vals : Count(b, v) = Count(c, v)

Distinct(b) == \A x, y \in DOMAIN b : x # y => b[x] # b[y]

OrderStatistic == At(a, nth_el) = At(SortedCopy(a0), nth_el)

Partitioned ==
    /\ \A x \in 0..(nth_el - 1) : cmp(At(a, x), At(a, nth_el)) # "Greater"
    /\ \A x \in (nth_el + 1)..(Len(a) - 1) : cmp(At(a, x), At(a, nth_el)) # "Less"

SecondCall == prevNth = nth_el

\* ---- C1 ----
\* C1: when nth_element returns from a valid call (non-empty buffer,
\* nth_el < length), a[nth_el] is the element at index nth_el of a sorted
\* copy of the buffer the call started with; for every call of a sequence.
C1_OrderStatistic == (Returned /\ ValidCall) => OrderStatistic

C1_Witness ==
    /\ Returned /\ ValidCall
    /\ prevNth # NoCall
    /\ Len(a) >= 4
    /\ ~Distinct(a)
    /\ a # a0
    /\ nth_el > 0 /\ nth_el < Len(a) - 1

\* ---- C2 ----
\* C2: when nth_element returns from a valid call, every element left of
\* nth_el compares less-or-equal to a[nth_el] and every element right of it
\* compares greater-or-equal.
C2_Partitioned == (Returned /\ ValidCall) => Partitioned

C2_Witness ==
    /\ Returned /\ ValidCall
    /\ Len(a) >= 4
    /\ a # a0
    /\ a # SortedCopy(a)
    /\ nth_el > 0 /\ nth_el < Len(a) - 1

\* ---- C3 ----
\* C3: a valid call of nth_element terminates: once the loop of floydrivest
\* is entered, the call eventually returns.
C3_Terminates == (pc = "loop" /\ ValidCall) ~> Returned

\* ---- C4 ----
\* C4: in every state of a call the multiset of the buffer's values is the
\* one the call started with.
C4_MultisetInvariant == SameMultiset(a, a0)

C4_Witness ==
    /\ pc = "skipJ"
    /\ a # a0
    /\ a # aPass
    /\ Len(a) >= 3

\* ---- C5 ----
\* C5 (as stated): a second call with the same nth_el on the buffer the
\* first call returned leaves every position of the buffer as it was.
C5_Idempotent == (Returned /\ ValidCall /\ SecondCall) => a = a0

\* C5 (amended): for a buffer of pairwise distinct elements, the second call
\* with the same nth_el makes one partition pass that ends with the pivot at
\* nth_el and the buffer as it was, and returns with the buffer as it was.
C5_IdempotentDistinct ==
    (ValidCall /\ SecondCall /\ Distinct(a0)) =>
        /\ pc = "adjust" => (j = nth_el /\ a = a0)
        /\ pc = "loop" => a = a0
        /\ Returned => a = a0

C5_Witness ==
    /\ Returned /\ ValidCall /\ SecondCall
    /\ Distinct(a0)
    /\ Len(a) >= 3
    /\ a # SortedCopy(a)
    /\ a = a0

\* ---- C6 ----
\* C6: a call on an empty buffer or with nth_el >= length never returns
\* normally (it panics).
C6_MisuseSignalled == Returned => ValidCall

\* ---- C7 ----
\* C7: the range adjustment applies two independent tests: j <= nth_el sets
\* left to j + 1, and nth_el <= j sets right to j - 1 (saturating at 0).
C7_IndependentAdjust ==
    [][pc = "adjust" =>
        /\ (j <= nth_el => left' = j + 1)
        /\ (nth_el <= j => right' = saturating_sub(j, 1))]_vars

\* ---- C8 ----
\* C8: in a valid call every index used by the scan and by the pivot
\* placement is inside [left, right], j -= 1 is never applied to 0, the
\* j + 1 of the non-equal branch is at most right, and the call never panics.
C8_IndicesInRange ==
    ValidCall =>
        /\ pc # "panic"
        /\ pc = "swap" => (left <= i /\ i <= right /\ left <= j /\ j <= right /\ j >= 1)
        /\ pc = "skipI" => (left <= i /\ i <= right)
        /\ pc = "skipJ" => /\ left <= j /\ j <= right
                           /\ cmp(At(a, j), t) = "Greater" => j >= 1
        /\ pc = "place" => /\ left <= j /\ j <= right
                           /\ cmp(At(a, left), t) # "Equal" => j + 1 <= right

C8_Witness ==
    /\ ValidCall
    /\ pc = "place"
    /\ cmp(At(a, left), t) # "Equal"
    /\ j + 1 <= right
    /\ left > 0
    /\ right - left >= 2

\* ---- C9 ----
\* C9: after the scan and the pivot placement of a pass entered with
\* left <= nth_el <= right and t = a[nth_el]: left <= j <= right, a[j] equals
\* t, a[left..j) <= t, a(j..right] >= t, and nothing outside [left, right]
\* has changed.
C9_PassPostcondition ==
    (pc = "adjust" /\ left <= nth_el /\ nth_el <= right /\ right < Len(a)) =>
        /\ t = At(aPass, nth_el)
        /\ left <= j /\ j <= right
        /\ cmp(At(a, j), t) = "Equal"
        /\ \A x \in left..(j - 1) : cmp(At(a, x), t) # "Greater"
        /\ \A x \in (j + 1)..right : cmp(At(a, x), t) # "Less"
        /\ \A x \in 0..(Len(a) - 1) : (x < left \/ x > right) => At(a, x) = At(aPass, x)

C9_Witness ==
    /\ pc = "adjust" /\ left <= nth_el /\ nth_el <= right /\ right < Len(a)
    /\ left > 0
    /\ right - left >= 2
    /\ a # aPass
    /\ j > left /\ j < right

\* ---- C10 ----
\* C10: with the size threshold as a parameter and any sub-range [ll, rr]
\* with left <= ll <= nth_el <= rr <= right handed to the recursive call, a
\* valid top-level call returns with a[nth_el] the order statistic and the
\* buffer partitioned around it.
C10_SampleIndependent ==
    (Returned /\ ValidCall /\ stack = <<>>) => (OrderStatistic /\ Partitioned)

C10_Witness ==
    /\ Returned /\ ValidCall /\ stack = <<>>
    /\ sampled
    /\ a # a0
    /\ Len(a) >= 4

====
